---------------------------- MODULE Spec2Model ----------------------------
(***************************************************************************)
(* Model of custom_components/twinfresh/api_v2.py (class SikuV2Api): the   *)
(* UDP protocol client of a ventilation-fan controller.                    *)
(*                                                                         *)
(* Representation.  A Python hex string ("FDFD02...") is a sequence of hex *)
(* digits 0..15 (upper-casing is then the identity, as every string the    *)
(* code upper-cases is made of hex digits); a token of a hexlist is such a *)
(* string of two digits.  A bytes object is a sequence of byte values      *)
(* 0..255.  A Python str holding text (the device id, the password) is a   *)
(* sequence of Unicode code points.  Cursors keep the code's 0-based       *)
(* values; At(h, i) reads element i.                                       *)
(***************************************************************************)
EXTENDS Integers, Sequences, FiniteSets, TLC

(***************************************************************************)
(* Bounds of the model.                                                    *)
(***************************************************************************)
\* length (in code points) of the oversized credentials: more than the 255
\* a length byte can state
OverLen == 256
\* longest run of equal bytes given to the checksum (258 bytes of FF sum to
\* more than 16 bits)
MaxRun == 259
\* longest field stream (in tokens) of a response given to the parser
MaxStream == 4

(***************************************************************************)
(* Module constants, api_v2.py lines 18-58: hex strings, digit by digit.   *)
(***************************************************************************)
PACKET_PREFIX == <<15, 13, 15, 13>>      \* "FDFD"
PACKET_PROTOCOL_TYPE == <<0, 2>>         \* "02"
PACKET_SIZE_ID == <<1, 0>>               \* "10"

FUNC_READ == <<0, 1>>                    \* "01"
FUNC_READ_WRITE == <<0, 3>>              \* "03"
FUNC_RESULT == <<0, 6>>                  \* "06"

RETURN_CHANGE_FUNC == <<15, 12>>         \* "FC"
RETURN_INVALID == <<15, 13>>             \* "FD"
RETURN_VALUE_SIZE == <<15, 14>>          \* "FE"
RETURN_HIGH_BYTE == <<15, 15>>           \* "FF"

COMMAND_ON_OFF == <<0, 1>>               \* "01"
COMMAND_SPEED == <<0, 2>>                \* "02"
COMMAND_CURRENT_HUMIDITY == <<2, 5>>     \* "25"
COMMAND_DIRECTION == <<11, 7>>           \* "B7"
COMMAND_DEVICE_TYPE == <<11, 9>>         \* "B9"
COMMAND_MODE == <<0, 7>>                 \* "07"

POWER_OFF == <<0, 0>>                    \* "00"
POWER_ON == <<0, 1>>                     \* "01"

MODE_OFF == <<0, 1>>                     \* "01"
MODE_SLEEP == <<0, 1>>                   \* "01"
MODE_PARTY == <<0, 2>>                   \* "02"

(***************************************************************************)
(* Names imported from .const, which is not among the sources: the preset  *)
(* names, the direction table and the valid speeds, as the specification   *)
(* describes them (modes auto/sleep/party; directions forward, reverse,    *)
(* alternating; a fixed set of speeds).                                    *)
(***************************************************************************)
PRESET_MODE_AUTO == "auto"
PRESET_MODE_SLEEP == "sleep"
PRESET_MODE_PARTY == "party"
\* A direction name is compared with caller-supplied strings, so it is
\* written as its code points: "forward", "reverse", "alternating".
DIRECTION_FORWARD == <<102, 111, 114, 119, 97, 114, 100>>
DIRECTION_REVERSE == <<114, 101, 118, 101, 114, 115, 101>>
DIRECTION_ALTERNATING ==
    <<97, 108, 116, 101, 114, 110, 97, 116, 105, 110, 103>>
\* dict: raw direction code (hex string) -> domain direction name, in
\* insertion order
DIRECTIONS == << <<(<<0, 0>>), DIRECTION_FORWARD>>,
                 <<(<<0, 1>>), DIRECTION_REVERSE>>,
                 <<(<<0, 2>>), DIRECTION_ALTERNATING>> >>
FAN_SPEEDS == << <<0, 1>>, <<0, 2>>, <<0, 3>> >>
\* Python's None where a string may stand: equal to no string
None == <<-1>>

\* MODES = {MODE_OFF: auto, MODE_SLEEP: sleep, MODE_PARTY: party}: a dict
\* display keeps the last value given for an equal key, so the entry of
\* MODE_OFF ("01") is overwritten by that of MODE_SLEEP ("01").
MODES == LET items == << <<MODE_OFF, PRESET_MODE_AUTO>>,
                         <<MODE_SLEEP, PRESET_MODE_SLEEP>>,
                         <<MODE_PARTY, PRESET_MODE_PARTY>> >>
             keys == {items[k][1] : k \in 1..Len(items)}
             last(c) == CHOOSE k \in 1..Len(items) :
                           /\ items[k][1] = c
                           /\ \A j \in 1..Len(items) : items[j][1] = c => j <= k
         IN  [c \in keys |-> items[last(c)][2]]

(***************************************************************************)
(* Strings, bytes and hex digits.                                          *)
(***************************************************************************)
Min(a, b) == IF a < b THEN a ELSE b

\* h[i] of a Python list, i counted from 0
At(h, i) == h[i + 1]

\* h[a:b] of a Python list or str (0 <= a, 0 <= b): clipped to the length,
\* never an error
Slice(h, a, b) == SubSeq(h, a + 1, Min(b, Len(h)))

\* the digits of n >= 0 in the given base, most significant first, no
\* leading zero ("" for 0)
RECURSIVE Digits(_, _)
Digits(n, base) == IF n = 0 THEN <<>>
                   ELSE Append(Digits(n \div base, base), n % base)

\* f"{n:0{w}x}", f"{n:0{w}X}", f"{n:0{w}}": at least w digits, zero padded,
\* never truncated
Format(n, base, w) ==
    LET d == Digits(n, base)
    IN  IF Len(d) >= w THEN d ELSE [k \in 1..(w - Len(d)) |-> 0] \o d

\* bytes.hex(): two hex digits per byte
HexOf(bs) == [k \in 1..(2 * Len(bs)) |->
                 IF k % 2 = 1 THEN bs[(k + 1) \div 2] \div 16
                 ELSE bs[k \div 2] % 16]

\* int(s, 16) of a non-empty hex string
RECURSIVE IntOfHex(_)
IntOfHex(s) == IF s = <<>> THEN 0
               ELSE 16 * IntOfHex(SubSeq(s, 1, Len(s) - 1)) + s[Len(s)]

\* chr(c).encode("utf-8")
Utf8Char(c) ==
    IF c < 128 THEN <<c>>
    ELSE IF c < 2048 THEN <<192 + (c \div 64), 128 + (c % 64)>>
    ELSE IF c < 65536
         THEN <<224 + (c \div 4096), 128 + ((c \div 64) % 64), 128 + (c % 64)>>
    ELSE <<240 + (c \div 262144), 128 + ((c \div 4096) % 64),
           128 + ((c \div 64) % 64), 128 + (c % 64)>>

\* str.encode("utf-8"): the encodings of the characters lo..hi of s, in
\* order (the range is halved to keep the evaluation shallow)
RECURSIVE Utf8Range(_, _, _)
Utf8Range(s, lo, hi) ==
    IF lo > hi THEN <<>>
    ELSE IF lo = hi THEN Utf8Char(s[lo])
    ELSE LET mid == (lo + hi) \div 2
         IN  Utf8Range(s, lo, mid) \o Utf8Range(s, mid + 1, hi)

Utf8(s) == Utf8Range(s, 1, Len(s))

\* SikuV2Api._hexlist: the string cut into pieces of two characters; the
\* last piece has one character when the length is odd
_hexlist(hexstr) ==
    [k \in 1..((Len(hexstr) + 1) \div 2) |-> Slice(hexstr, 2 * (k - 1), 2 * k)]

(***************************************************************************)
(* Checksum unit.                                                          *)
(***************************************************************************)
\* the loop of _checksum: the sum of int(hexstr, 16) over the tokens
\* lo..hi (the range is halved to keep the evaluation shallow)
RECURSIVE SumTokens(_, _, _)
SumTokens(hl, lo, hi) ==
    IF lo > hi THEN 0
    ELSE IF lo = hi THEN IntOfHex(hl[lo])
    ELSE LET mid == (lo + hi) \div 2
         IN  SumTokens(hl, lo, mid) + SumTokens(hl, mid + 1, hi)

\* SikuV2Api._checksum(data): a hex string of four digits
_checksum(data) ==
    LET hl == _hexlist(data)
        checksum == SumTokens(hl, 3, Len(hl))
        checksum_str == Format(checksum, 16, 4)
    IN  Slice(checksum_str, 2, 4) \o Slice(checksum_str, 0, 2)

\* the token list of a received datagram (lines 203-206): hex(), upper(),
\* then the characters zipped two by two
TokensOf(result_data) ==
    LET result_str == HexOf(result_data)
    IN  [k \in 1..(Len(result_str) \div 2) |->
            <<result_str[2 * k - 1], result_str[2 * k]>>]

\* "".join(hexlist): the elements lo..hi of the list, concatenated (the
\* range is halved to keep the evaluation shallow)
RECURSIVE JoinRange(_, _, _)
JoinRange(hl, lo, hi) ==
    IF lo > hi THEN <<>>
    ELSE IF lo = hi THEN hl[lo]
    ELSE LET mid == (lo + hi) \div 2
         IN  JoinRange(hl, lo, mid) \o JoinRange(hl, mid + 1, hi)

Join(hl) == JoinRange(hl, 1, Len(hl))

\* a verification that compares the first checksum byte only
VerifyFirstByteOnly(hexlist) ==
    IF Len(hexlist) < 2 THEN "IndexError"
    ELSE LET checksum == _checksum(Join(Slice(hexlist, 0, Len(hexlist) - 2)))
         IN  IF Slice(checksum, 0, 2) = At(hexlist, Len(hexlist) - 2)
             THEN "True" ELSE "False"

\* SikuV2Api._verify_checksum(hexlist): "IndexError" when hexlist[-2] does
\* not exist, else the comparison of the two strings
_verify_checksum(hexlist) ==
    IF Len(hexlist) < 2 THEN "IndexError"
    ELSE LET checksum == _checksum(Join(Slice(hexlist, 0, Len(hexlist) - 2)))
         IN  IF checksum = At(hexlist, Len(hexlist) - 2)
                              \o At(hexlist, Len(hexlist) - 1)
             THEN "True" ELSE "False"

(***************************************************************************)
(* Packet codec, encoding side.                                            *)
(***************************************************************************)
\* SikuV2Api._login_packet
_login_packet(idnum, password) ==
    LET id_hex == HexOf(Utf8(idnum))
        password_size == Format(Len(password), 16, 2)
        password_hex == HexOf(Utf8(password))
    IN  PACKET_PREFIX \o PACKET_PROTOCOL_TYPE \o PACKET_SIZE_ID \o id_hex
            \o password_size \o password_hex

\* SikuV2Api._build_packet
_build_packet(idnum, password, func, data) ==
    LET packet_str == _login_packet(idnum, password) \o func \o data
    IN  packet_str \o _checksum(packet_str)

\* bytes.fromhex(s): ValueError for a string of odd length
FromHexFails(s) == Len(s) % 2 = 1
FromHex(s) == [k \in 1..(Len(s) \div 2) |-> 16 * s[2 * k - 1] + s[2 * k]]

(***************************************************************************)
(* Response field parser.  A result is a record: error is "" and data the  *)
(* command -> value mapping (a function from command tokens to hex         *)
(* strings) when the parse returns, else error names the exception raised. *)
(***************************************************************************)
Raise(kind) == [error |-> kind, data |-> <<>>]
Return(d) == [error |-> "", data |-> d]

\* data.update({cmd: value})
Update(data, cmd, value) ==
    [c \in (DOMAIN data) \cup {cmd} |-> IF c = cmd THEN value ELSE data[c]]

Reverse(s) == [k \in 1..Len(s) |-> s[Len(s) + 1 - k]]

\* lines 245-276 of _parse_response: the header checks.  The result is the
\* exception raised, or "" with the cursor (start) left after the function
\* byte.  Reading hexlist[start] past the end is an IndexError, which the
\* except clause (KeyError only) does not catch.
ParseHeader(hexlist) ==
    LET n == Len(hexlist)
        Fail(kind) == [error |-> kind, start |-> 0]
    IN  IF Join(Slice(hexlist, 0, 2)) # PACKET_PREFIX
        THEN Fail("Invalid packet prefix")
        ELSE IF 2 >= n THEN Fail("IndexError")
        ELSE IF At(hexlist, 2) # PACKET_PROTOCOL_TYPE
        THEN Fail("Invalid packet protocol type")
        ELSE IF 3 >= n THEN Fail("IndexError")
        ELSE LET afterId == 3 + 1 + IntOfHex(At(hexlist, 3))
             IN  IF afterId >= n THEN Fail("IndexError")
                 ELSE LET afterPw == afterId + 1 + IntOfHex(At(hexlist, afterId))
                      IN  IF afterPw >= n THEN Fail("IndexError")
                          ELSE IF At(hexlist, afterPw) # FUNC_RESULT
                          THEN Fail("Invalid result function")
                          ELSE [error |-> "", start |-> afterPw + 1]

\* an explicit-size field recorded without reversing the byte order
FieldStepNoReverse(hexlist, i, data) ==
    LET n == Len(hexlist)
        parameter == At(hexlist, i)
        Fail(kind) == [error |-> kind, i |-> i, data |-> data]
        Advance(j, cmd, value) ==
            [error |-> "", i |-> j + 1, data |-> Update(data, cmd, value)]
    IN  IF parameter = RETURN_CHANGE_FUNC
        THEN Fail("special function, change base function not implemented")
        ELSE IF parameter = RETURN_INVALID
        THEN IF i + 1 >= n THEN Fail("IndexError")
             ELSE Advance(i + 1, At(hexlist, i + 1), <<>>)
        ELSE IF parameter = RETURN_VALUE_SIZE
        THEN IF i + 1 >= n THEN Fail("IndexError")
             ELSE LET value_size == IntOfHex(At(hexlist, i + 1))
                  IN  IF i + 2 >= n THEN Fail("IndexError")
                      ELSE LET cmd == At(hexlist, i + 2)
                               value == Join(Slice(hexlist, i + 3,
                                                   i + 3 + value_size))
                               reversed == Join(Reverse(_hexlist(value)))
                           IN  Advance(i + 2 + value_size, cmd, value)
        ELSE IF parameter = RETURN_HIGH_BYTE
        THEN Fail("special function, high byte not implemented")
        ELSE IF i + 1 >= n THEN Fail("IndexError")
             ELSE Advance(i + 1, parameter, At(hexlist, i + 1))

\* an explicit-size field that moves the cursor by value_size only: the
\* two i += 1 of lines 297 and 300 are missing
FieldStepSizeOnly(hexlist, i, data) ==
    LET n == Len(hexlist)
        parameter == At(hexlist, i)
        Fail(kind) == [error |-> kind, i |-> i, data |-> data]
        Advance(j, cmd, value) ==
            [error |-> "", i |-> j + 1, data |-> Update(data, cmd, value)]
    IN  IF parameter = RETURN_CHANGE_FUNC
        THEN Fail("special function, change base function not implemented")
        ELSE IF parameter = RETURN_INVALID
        THEN IF i + 1 >= n THEN Fail("IndexError")
             ELSE Advance(i + 1, At(hexlist, i + 1), <<>>)
        ELSE IF parameter = RETURN_VALUE_SIZE
        THEN IF i + 1 >= n THEN Fail("IndexError")
             ELSE LET value_size == IntOfHex(At(hexlist, i + 1))
                  IN  IF i + 2 >= n THEN Fail("IndexError")
                      ELSE LET cmd == At(hexlist, i + 2)
                               value == Join(Slice(hexlist, i + 3,
                                                   i + 3 + value_size))
                               reversed == Join(Reverse(_hexlist(value)))
                           IN  Advance(i - 1 + value_size, cmd, reversed)
        ELSE IF parameter = RETURN_HIGH_BYTE
        THEN Fail("special function, high byte not implemented")
        ELSE IF i + 1 >= n THEN Fail("IndexError")
             ELSE Advance(i + 1, parameter, At(hexlist, i + 1))

\* one iteration of the while loop, lines 282-323, entered with
\* i < len(hexlist) - 2: the exception raised, or "" with the cursor and
\* the mapping after the iteration
FieldStep(hexlist, i, data) ==
    LET n == Len(hexlist)
        parameter == At(hexlist, i)
        Fail(kind) == [error |-> kind, i |-> i, data |-> data]
        Advance(j, cmd, value) ==
            [error |-> "", i |-> j + 1, data |-> Update(data, cmd, value)]
    IN  IF parameter = RETURN_CHANGE_FUNC
        THEN Fail("special function, change base function not implemented")
        ELSE IF parameter = RETURN_INVALID
        THEN IF i + 1 >= n THEN Fail("IndexError")
             ELSE Advance(i + 1, At(hexlist, i + 1), <<>>)
        ELSE IF parameter = RETURN_VALUE_SIZE
        THEN IF i + 1 >= n THEN Fail("IndexError")
             ELSE LET value_size == IntOfHex(At(hexlist, i + 1))
                  IN  IF i + 2 >= n THEN Fail("IndexError")
                      ELSE LET cmd == At(hexlist, i + 2)
                               value == Join(Slice(hexlist, i + 3,
                                                   i + 3 + value_size))
                               reversed == Join(Reverse(_hexlist(value)))
                           IN  Advance(i + 2 + value_size, cmd, reversed)
        ELSE IF parameter = RETURN_HIGH_BYTE
        THEN Fail("special function, high byte not implemented")
        ELSE IF i + 1 >= n THEN Fail("IndexError")
             ELSE Advance(i + 1, parameter, At(hexlist, i + 1))

\* the while loop, lines 280-323
RECURSIVE FieldLoop(_, _, _)
FieldLoop(hexlist, i, data) ==
    IF ~(i < Len(hexlist) - 2) THEN Return(data)
    ELSE LET r == FieldStep(hexlist, i, data)
         IN  IF r.error # "" THEN Raise(r.error)
             ELSE FieldLoop(hexlist, r.i, r.data)

\* SikuV2Api._parse_response
_parse_response(hexlist) ==
    LET hd == ParseHeader(hexlist)
    IN  IF hd.error # "" THEN Raise(hd.error)
        ELSE FieldLoop(hexlist, hd.start, <<>>)

(***************************************************************************)
(* State translator.                                                       *)
(***************************************************************************)
\* an insertion-ordered dict given as a sequence of <<key, value>> pairs
DictKeys(d) == {d[k][1] : k \in 1..Len(d)}
DictValues(d) == {d[k][2] : k \in 1..Len(d)}
DictGet(d, key) == d[CHOOSE k \in 1..Len(d) : d[k][1] = key][2]
\* list(d.keys())[list(d.values()).index(value)]: the key of the first
\* entry holding the value
DictKeyOf(d, value) ==
    d[CHOOSE k \in 1..Len(d) :
        /\ d[k][2] = value
        /\ \A j \in 1..(k - 1) : d[j][2] # value][1]

\* a translator whose default for an absent or unknown direction is "not
\* oscillating", like the default of is_on
TranslateOscillatingFalse(data) ==
    LET has(c) == c \in DOMAIN data
        is_on == IF has(COMMAND_ON_OFF)
                 THEN data[COMMAND_ON_OFF] = POWER_ON ELSE FALSE
        speedFails == has(COMMAND_SPEED) /\ data[COMMAND_SPEED] = <<>>
        speed == IF has(COMMAND_SPEED)
                 THEN Format(IntOfHex(data[COMMAND_SPEED]), 10, 2)
                 ELSE <<0, 0>>
        known == has(COMMAND_DIRECTION)
                    /\ data[COMMAND_DIRECTION] \in DictKeys(DIRECTIONS)
        direction == IF known
                     THEN DictGet(DIRECTIONS, data[COMMAND_DIRECTION])
                     ELSE None
        oscillating == IF known THEN direction = DIRECTION_ALTERNATING
                       ELSE FALSE
        mode == IF has(COMMAND_MODE) /\ data[COMMAND_MODE] \in DOMAIN MODES
                THEN MODES[data[COMMAND_MODE]] ELSE PRESET_MODE_AUTO
    IN  IF speedFails
        THEN [error |-> "ValueError",
              status |-> [is_on |-> FALSE, speed |-> <<>>,
                          oscillating |-> FALSE, direction |-> None,
                          mode |-> "None"]]
        ELSE [error |-> "",
              status |-> [is_on |-> is_on, speed |-> speed,
                          oscillating |-> oscillating,
                          direction |-> direction, mode |-> mode]]

\* the status field of a translation that raised (nothing is returned)
NoStatus == [is_on |-> FALSE, speed |-> <<>>, oscillating |-> FALSE,
             direction |-> None, mode |-> "None"]

\* a translator that passes the speed value on as the hex string received,
\* without the conversion to decimal of line 220
TranslateSpeedHex(data) ==
    LET has(c) == c \in DOMAIN data
        is_on == IF has(COMMAND_ON_OFF)
                 THEN data[COMMAND_ON_OFF] = POWER_ON ELSE FALSE
        speedFails == has(COMMAND_SPEED) /\ data[COMMAND_SPEED] = <<>>
        speed == IF has(COMMAND_SPEED)
                 THEN data[COMMAND_SPEED]
                 ELSE <<0, 0>>
        known == has(COMMAND_DIRECTION)
                    /\ data[COMMAND_DIRECTION] \in DictKeys(DIRECTIONS)
        direction == IF known
                     THEN DictGet(DIRECTIONS, data[COMMAND_DIRECTION])
                     ELSE None
        oscillating == IF known THEN direction = DIRECTION_ALTERNATING
                       ELSE TRUE
        mode == IF has(COMMAND_MODE) /\ data[COMMAND_MODE] \in DOMAIN MODES
                THEN MODES[data[COMMAND_MODE]] ELSE PRESET_MODE_AUTO
    IN  IF speedFails THEN [error |-> "ValueError", status |-> NoStatus]
        ELSE [error |-> "",
              status |-> [is_on |-> is_on, speed |-> speed,
                          oscillating |-> oscillating,
                          direction |-> direction, mode |-> mode]]

\* SikuV2Api._translate_response: error is "" and status the record
\* returned, or error names the exception that leaves the function.  Each
\* try catches KeyError only; int("", 16) raises ValueError.
_translate_response(data) ==
    LET has(c) == c \in DOMAIN data
        is_on == IF has(COMMAND_ON_OFF)
                 THEN data[COMMAND_ON_OFF] = POWER_ON ELSE FALSE
        speedFails == has(COMMAND_SPEED) /\ data[COMMAND_SPEED] = <<>>
        speed == IF has(COMMAND_SPEED)
                 THEN Format(IntOfHex(data[COMMAND_SPEED]), 10, 2)
                 ELSE <<0, 0>>
        known == has(COMMAND_DIRECTION)
                    /\ data[COMMAND_DIRECTION] \in DictKeys(DIRECTIONS)
        direction == IF known
                     THEN DictGet(DIRECTIONS, data[COMMAND_DIRECTION])
                     ELSE None
        oscillating == IF known THEN direction = DIRECTION_ALTERNATING
                       ELSE TRUE
        mode == IF has(COMMAND_MODE) /\ data[COMMAND_MODE] \in DOMAIN MODES
                THEN MODES[data[COMMAND_MODE]] ELSE PRESET_MODE_AUTO
    IN  IF speedFails THEN [error |-> "ValueError", status |-> NoStatus]
        ELSE [error |-> "",
              status |-> [is_on |-> is_on, speed |-> speed,
                          oscillating |-> oscillating,
                          direction |-> direction, mode |-> mode]]

(***************************************************************************)
(* Protocol client: the public commands, lines 71-128.                     *)
(***************************************************************************)
\* the payloads (cmd) the commands build; upper() leaves them as they are
status_cmd == COMMAND_DEVICE_TYPE \o COMMAND_ON_OFF \o COMMAND_SPEED
                \o COMMAND_CURRENT_HUMIDITY \o COMMAND_DIRECTION
                \o COMMAND_MODE
power_on_cmd == COMMAND_ON_OFF \o POWER_ON
\* a power_off that writes the value of power_on
PowerOffWritesOn == COMMAND_ON_OFF \o POWER_ON

power_off_cmd == COMMAND_ON_OFF \o POWER_OFF
speed_cmd(speed) == COMMAND_SPEED \o speed
direction_cmd(direction) == COMMAND_DIRECTION \o direction
sleep_cmd == COMMAND_ON_OFF \o POWER_ON \o COMMAND_MODE \o MODE_SLEEP
party_cmd == COMMAND_ON_OFF \o POWER_ON \o COMMAND_MODE \o MODE_PARTY
humidity_cmd == COMMAND_CURRENT_HUMIDITY

\* speed() without its check of the argument
SpeedRejectedNever(speed) == FALSE

\* line 92: speed not in FAN_SPEEDS
SpeedRejected(speed) == speed \notin {FAN_SPEEDS[k] : k \in 1..Len(FAN_SPEEDS)}

\* a direction() without the translation of line 102: the argument is
\* used as it was given
DirectionKeyAsGiven(direction) == direction

\* lines 101-104: a domain direction name is replaced by its raw code
DirectionKey(direction) ==
    IF direction \in DictValues(DIRECTIONS)
    THEN DictKeyOf(DIRECTIONS, direction) ELSE direction

\* line 105: direction not in DIRECTIONS, after the replacement
DirectionRejected(direction) ==
    DirectionKey(direction) \notin DictKeys(DIRECTIONS)

\* a mutating command that answers from the response to its own write
\* exchange instead of calling status()
ContinueFromWrite(fr, hexlist) ==
    LET parsed == _parse_response(hexlist)
    IN  IF parsed.error # ""
        THEN [next |-> "raise", value |-> parsed.error]
        ELSE IF fr = "humidity"
        THEN [next |-> "return",
              value |-> IF COMMAND_CURRENT_HUMIDITY \in DOMAIN parsed.data
                        THEN parsed.data[COMMAND_CURRENT_HUMIDITY]
                        ELSE None]
        ELSE LET t == _translate_response(parsed.data)
             IN  IF t.error # ""
                 THEN [next |-> "raise", value |-> t.error]
                 ELSE [next |-> "return", value |-> t.status]

\* a status() that reports the power state the client assumes, "on",
\* whatever the response says
ContinueCached(fr, hexlist) ==
    IF fr = "write" THEN [next |-> "status", value |-> None]
    ELSE LET parsed == _parse_response(hexlist)
         IN  IF parsed.error # ""
             THEN [next |-> "raise", value |-> parsed.error]
             ELSE IF fr = "status"
             THEN LET t == _translate_response(parsed.data)
                  IN  IF t.error # ""
                      THEN [next |-> "raise", value |-> t.error]
                      ELSE [next |-> "return",
                            value |-> [t.status EXCEPT !.is_on = TRUE]]
             ELSE [next |-> "return",
                   value |-> IF COMMAND_CURRENT_HUMIDITY \in DOMAIN parsed.data
                             THEN parsed.data[COMMAND_CURRENT_HUMIDITY]
                             ELSE None]

\* a status() that calls _send_command again when the response does not
\* parse, instead of letting the error end the call
ContinueRetry(fr, hexlist) ==
    IF fr = "write" THEN [next |-> "status", value |-> None]
    ELSE LET parsed == _parse_response(hexlist)
         IN  IF parsed.error # ""
             THEN IF fr = "status"
                  THEN [next |-> "status", value |-> None]
                  ELSE [next |-> "raise", value |-> parsed.error]
             ELSE IF fr = "status"
             THEN LET t == _translate_response(parsed.data)
                  IN  IF t.error # ""
                      THEN [next |-> "raise", value |-> t.error]
                      ELSE [next |-> "return", value |-> t.status]
             ELSE [next |-> "return",
                   value |-> IF COMMAND_CURRENT_HUMIDITY \in DOMAIN parsed.data
                             THEN parsed.data[COMMAND_CURRENT_HUMIDITY]
                             ELSE None]

\* what the caller of _send_command does with the token list returned, by
\* the frame that called it: a mutating command ("write") drops the list
\* and calls status() (lines 82, 88, 96, 109, 115, 121); status() parses and
\* translates it (lines 75-76); humidity() parses it and looks the humidity
\* up (lines 127-128).  next is "status", "return" or "raise".
Continue(fr, hexlist) ==
    IF fr = "write" THEN [next |-> "status", value |-> None]
    ELSE LET parsed == _parse_response(hexlist)
         IN  IF parsed.error # ""
             THEN [next |-> "raise", value |-> parsed.error]
             ELSE IF fr = "status"
             THEN LET t == _translate_response(parsed.data)
                  IN  IF t.error # ""
                      THEN [next |-> "raise", value |-> t.error]
                      ELSE [next |-> "return", value |-> t.status]
             ELSE [next |-> "return",
                   value |-> IF COMMAND_CURRENT_HUMIDITY \in DOMAIN parsed.data
                             THEN parsed.data[COMMAND_CURRENT_HUMIDITY]
                             ELSE None]

\* s.recvfrom(256): at most 256 bytes of the datagram
RecvFrom(datagram) == Slice(datagram, 0, 256)

(***************************************************************************)
(* Inputs of the client model.                                             *)
(***************************************************************************)
Rep(c, n) == [k \in 1..n |-> c]

\* clients: a 16-character id with password "pw"; the id "A1"; an id of
\* OverLen characters; a password of OverLen characters; a password of
\* OverLen / 2 two-byte characters ("e acute": OverLen bytes or one less)
Credentials == {<<Rep(65, 16), <<112, 119>> >>,
                <<(<<65, 49>>), <<112, 119>> >>,
                <<Rep(65, OverLen), <<112, 119>> >>,
                <<Rep(65, 16), Rep(65, OverLen)>>,
                <<Rep(65, 16), Rep(233, OverLen \div 2)>>}
Clients == {[host |-> "fan", port |-> 4000, idnum |-> c[1], password |-> c[2]] :
               c \in Credentials}

\* arguments given to speed() and direction(): valid ones, and strings that
\* are no speed, no raw direction code and no direction name
SpeedArgs == {<<0, 1>>, <<0, 3>>, <<0, 0>>, <<0, 4>>, <<1>>, DIRECTION_FORWARD}
DirectionArgs == {<<0, 0>>, <<0, 2>>, DIRECTION_REVERSE, DIRECTION_ALTERNATING,
                  <<0, 3>>, <<>>, <<117, 112>>}

\* datagrams the network may deliver: a header (well-formed, or with a
\* wrong prefix, protocol type or function byte; id block "A", empty
\* password block), a field stream, and a checksum that is right or has
\* its last byte off by one; datagrams too short to hold a checksum; and
\* a datagram longer than the 256 bytes recvfrom takes
RespHeader(kind) ==
    CASE kind = "ok" -> <<253, 253, 2, 1, 65, 0, 6>>
      [] kind = "prefix" -> <<253, 252, 2, 1, 65, 0, 6>>
      [] kind = "type" -> <<253, 253, 3, 1, 65, 0, 6>>
      [] kind = "func" -> <<253, 253, 2, 1, 65, 0, 1>>
HeaderKinds == {"ok", "prefix", "type", "func"}

WithChecksum(body, good) ==
    LET c == FromHex(_checksum(HexOf(body)))
    IN  body \o (IF good THEN c ELSE <<c[1], (c[2] + 1) % 256>>)

ClientStreams == {<<>>,
                  <<1, 1, 2, 3, 183, 0, 7, 2, 37, 40>>,
                  <<1, 0, 183, 9>>,
                  <<253, 2>>,
                  <<254, 2, 37, 16, 32>>,
                  <<252, 1>>}
Datagrams == {WithChecksum(RespHeader("ok") \o f, TRUE) : f \in ClientStreams}
             \cup {WithChecksum(RespHeader(k) \o <<1, 1>>, TRUE) :
                      k \in HeaderKinds}
             \cup {WithChecksum(RespHeader("ok") \o f, FALSE) :
                      f \in {<<>>, <<1, 1>>}}
             \cup {<<>>, <<0>>, <<0, 0>>}
             \cup {WithChecksum(RespHeader("ok") \o Rep(0, 260), TRUE)}

(***************************************************************************)
(* State.                                                                  *)
(*   client     the fields of the SikuV2Api object (__init__, lines 64-69) *)
(*   pc         where the call in progress stands: "idle" (no call in      *)
(*              progress), "send" (_send_command entered), "recv" (the     *)
(*              datagram is sent, recvfrom is pending)                     *)
(*   call       the public command called last, with its argument          *)
(*   frame      the caller of the running _send_command: "write" (a        *)
(*              mutating command), "status", "humidity"                    *)
(*   request    the arguments (func, data) of the running _send_command    *)
(*   exchanges  the exchanges of the call so far: what _send_command was   *)
(*              given, the socket it created (its position in sockets),    *)
(*              the datagram sent and the datagram received                *)
(*   sockets    the sockets the call created, each "open" or "closed"      *)
(*   result     how the call ended: kind "return" or "raise", or "none"    *)
(*   input, stage, output   the pure-function specifications' argument,    *)
(*              progress and results                                       *)
(*   tasks, device, network, driver   the calls in flight at once on one   *)
(*              client, the device they talk to, the datagrams under way   *)
(*              and what runs the calls (specification SpecConcurrent)     *)
(***************************************************************************)
VARIABLES client, pc, call, frame, request, exchanges, sockets, result,
          input, stage, output, tasks, device, network, driver

clientVars == <<client, pc, call, frame, request, exchanges, sockets, result>>
pureVars == <<input, stage, output>>
concVars == <<tasks, device, network, driver>>
vars == <<client, pc, call, frame, request, exchanges, sockets, result,
          input, stage, output, tasks, device, network, driver>>

NoRequest == [func |-> <<>>, data |-> <<>>]
NoResult == [kind |-> "none", value |-> None]
NoInput == [kind |-> "none"]

ClientInit ==
    /\ pc = "idle"
    /\ call = [name |-> "none", arg |-> None]
    /\ frame = "none"
    /\ request = NoRequest
    /\ exchanges = <<>>
    /\ sockets = <<>>
    /\ result = NoResult

PureIdle == input = NoInput /\ stage = "none" /\ output = <<>>

NoDevice == [is_on |-> FALSE, log |-> <<>>]
ConcIdle ==
    tasks = <<>> /\ device = NoDevice /\ network = {} /\ driver = "none"

Init == client \in Clients /\ ClientInit /\ PureIdle /\ ConcIdle

\* a public command is called and reaches its _send_command(func, data)
Begin(name, arg, fr, func, data) ==
    /\ call' = [name |-> name, arg |-> arg]
    /\ frame' = fr
    /\ request' = [func |-> func, data |-> data]
    /\ exchanges' = <<>>
    /\ sockets' = <<>>
    /\ result' = NoResult
    /\ pc' = "send"
    /\ UNCHANGED <<client, pureVars, concVars>>

\* a public command is called and raises before any _send_command
Reject(name, arg, error) ==
    /\ call' = [name |-> name, arg |-> arg]
    /\ frame' = "none"
    /\ request' = NoRequest
    /\ exchanges' = <<>>
    /\ sockets' = <<>>
    /\ result' = [kind |-> "raise", value |-> error]
    /\ pc' = "idle"
    /\ UNCHANGED <<client, pureVars, concVars>>

status ==
    /\ pc = "idle"
    /\ Begin("status", None, "status", FUNC_READ, status_cmd)

power_on ==
    /\ pc = "idle"
    /\ Begin("power_on", None, "write", FUNC_READ_WRITE, power_on_cmd)

power_off ==
    /\ pc = "idle"
    /\ Begin("power_off", None, "write", FUNC_READ_WRITE, power_off_cmd)

speed(s) ==
    /\ pc = "idle"
    /\ IF SpeedRejected(s)
       THEN Reject("speed", s, "ValueError: Invalid fan speed")
       ELSE Begin("speed", s, "write", FUNC_READ_WRITE, speed_cmd(s))

direction(d) ==
    /\ pc = "idle"
    /\ IF DirectionRejected(d)
       THEN Reject("direction", d, "ValueError: Invalid fan direction")
       ELSE Begin("direction", d, "write", FUNC_READ_WRITE,
                  direction_cmd(DirectionKey(d)))

sleep ==
    /\ pc = "idle"
    /\ Begin("sleep", None, "write", FUNC_READ_WRITE, sleep_cmd)

party ==
    /\ pc = "idle"
    /\ Begin("party", None, "write", FUNC_READ_WRITE, party_cmd)

humidity ==
    /\ pc = "idle"
    /\ Begin("humidity", None, "humidity", FUNC_READ, humidity_cmd)

\* the call in progress ends
Finish(kind, value) ==
    /\ result' = [kind |-> kind, value |-> value]
    /\ pc' = "idle"

\* a socket created outside a with block and never closed
CloseNone(socks) == socks

\* leaving the with block of line 183 closes the socket of the exchange
CloseLast(socks) == [socks EXCEPT ![Len(socks)] = "closed"]

\* _send_command, lines 177-193: the packet is built and converted to
\* bytes (ValueError for a hex string of odd length, before any socket
\* exists), the socket is created and the datagram is sent
SendTo ==
    /\ pc = "send"
    /\ LET packet_str == _build_packet(client.idnum, client.password,
                                       request.func, request.data)
       IN  IF FromHexFails(packet_str)
           THEN /\ Finish("raise", "ValueError: fromhex")
                /\ UNCHANGED <<exchanges, sockets>>
           ELSE /\ sockets' = Append(sockets, "open")
                /\ exchanges' = Append(exchanges,
                      [func |-> request.func, data |-> request.data,
                       socket |-> Len(sockets) + 1,
                       sent |-> FromHex(packet_str), received |-> None])
                /\ pc' = "recv"
                /\ UNCHANGED result
    /\ UNCHANGED <<client, call, frame, request, pureVars, concVars>>

\* socket.socket(...) raises OSError (line 183): no socket, nothing is sent
SocketFault ==
    /\ pc = "send"
    /\ ~FromHexFails(_build_packet(client.idnum, client.password,
                                   request.func, request.data))
    /\ Finish("raise", "OSError")
    /\ UNCHANGED <<client, call, frame, request, exchanges, sockets, pureVars, concVars>>

\* sendto raises OSError: the with block closes the socket, nothing is sent
SendFault ==
    /\ pc = "send"
    /\ ~FromHexFails(_build_packet(client.idnum, client.password,
                                   request.func, request.data))
    /\ sockets' = Append(sockets, "closed")
    /\ Finish("raise", "OSError")
    /\ UNCHANGED <<client, call, frame, request, exchanges, pureVars, concVars>>

\* recvfrom raises (no datagram within 10 s, or a socket fault): the with
\* block closes the socket
RecvFail(error) ==
    /\ pc = "recv"
    /\ sockets' = CloseLast(sockets)
    /\ Finish("raise", error)
    /\ UNCHANGED <<client, call, frame, request, exchanges, pureVars, concVars>>

\* lines 196-210 and the caller's continuation: a datagram arrives, its
\* checksum is verified, the socket is closed as the with block is left,
\* and the caller goes on with the token list
Recv(datagram) ==
    /\ pc = "recv"
    /\ LET result_data == RecvFrom(datagram)
           result_hexlist == TokensOf(result_data)
           verified == _verify_checksum(result_hexlist)
           k == Continue(frame, result_hexlist)
       IN  /\ exchanges' = [exchanges EXCEPT
                               ![Len(exchanges)].received = result_data]
           /\ sockets' = CloseLast(sockets)
           /\ IF verified = "IndexError"
              THEN Finish("raise", "IndexError") /\ UNCHANGED <<frame, request>>
              ELSE IF verified = "False"
              THEN Finish("raise", "Checksum error")
                   /\ UNCHANGED <<frame, request>>
              ELSE IF k.next = "status"
              THEN /\ frame' = "status"
                   /\ request' = [func |-> FUNC_READ, data |-> status_cmd]
                   /\ pc' = "send"
                   /\ UNCHANGED result
              ELSE Finish(k.next, k.value) /\ UNCHANGED <<frame, request>>
    /\ UNCHANGED <<client, call, pureVars, concVars>>

Next ==
    \/ status
    \/ power_on
    \/ power_off
    \/ \E s \in SpeedArgs : speed(s)
    \/ \E d \in DirectionArgs : direction(d)
    \/ sleep
    \/ party
    \/ humidity
    \/ SendTo
    \/ SocketFault
    \/ SendFault
    \/ \E e \in {"TimeoutError", "OSError"} : RecvFail(e)
    \/ \E datagram \in Datagrams : Recv(datagram)

Spec == Init /\ [][Next]_vars

(***************************************************************************)
(* The packet codec and the checksum on their own: an argument is drawn,   *)
(* and the functions are applied to it.                                    *)
(***************************************************************************)
\* byte sequences given to _checksum (as hex strings): two leading bytes
\* and a run of equal bytes, and sequences too short to hold the prefix
ChecksumInputs ==
    {p \o Rep(b, n) : p \in {<<253, 253>>, <<0, 7>>}, b \in {0, 1, 255},
                      n \in 0..MaxRun}
    \cup {<<>>, <<7>>}

\* arguments of _build_packet: ids and passwords of ASCII and of two-byte
\* characters, up to more than 255 bytes
CodecIds == {<<>>, <<65, 49>>, Rep(65, 16), Rep(233, 8), Rep(65, 255),
             Rep(65, OverLen)}
CodecPasswords == {<<>>, <<112, 119>>, Rep(233, 2), Rep(65, 255),
                   Rep(65, OverLen)}
CodecFuncs == {FUNC_READ, FUNC_READ_WRITE, FUNC_RESULT}
CodecPayloads == {<<>>, status_cmd, power_on_cmd, <<15, 15, 15, 15>>}

CodecInputs ==
    {[kind |-> "bytes", bytes |-> b] : b \in ChecksumInputs}
    \cup {[kind |-> "request", idnum |-> i, password |-> w, func |-> f,
           data |-> d] :
             i \in CodecIds, w \in CodecPasswords, f \in CodecFuncs,
             d \in CodecPayloads}

TheClient == CHOOSE c \in Clients : c.idnum = Rep(65, 16) /\ c.password = <<112, 119>>

CodecInit ==
    /\ client = TheClient
    /\ ClientInit
    /\ ConcIdle
    /\ input \in CodecInputs
    /\ stage = "input"
    /\ output = <<>>

\* _checksum applied to the hex string of the bytes
Checksum ==
    /\ input.kind = "bytes"
    /\ stage = "input"
    /\ output' = [checksum |-> _checksum(HexOf(input.bytes))]
    /\ stage' = "summed"
    /\ UNCHANGED <<input, clientVars, concVars>>

\* _build_packet applied to the request
BuildPacket ==
    /\ input.kind = "request"
    /\ stage = "input"
    /\ output' = [packet_str |-> _build_packet(input.idnum, input.password,
                                               input.func, input.data)]
    /\ stage' = "built"
    /\ UNCHANGED <<input, clientVars, concVars>>

\* the built packet, sent as bytes and taken for a received datagram: the
\* token list, the checksum verification and the header checks of the
\* response parser
Decode ==
    /\ stage = "built"
    /\ ~FromHexFails(output.packet_str)
    /\ LET hexlist == TokensOf(FromHex(output.packet_str))
       IN  output' = [packet_str |-> output.packet_str,
                      hexlist |-> hexlist,
                      verified |-> _verify_checksum(hexlist),
                      header |-> ParseHeader(hexlist)]
    /\ stage' = "decoded"
    /\ UNCHANGED <<input, clientVars, concVars>>

CodecNext == Checksum \/ BuildPacket \/ Decode

SpecCodec == CodecInit /\ [][CodecNext]_vars

(***************************************************************************)
(* The response parser and the state translator on their own: a response   *)
(* with a well-formed header, a drawn field stream and its checksum is     *)
(* parsed, and the mapping is translated.                                  *)
(***************************************************************************)
\* tokens of the field streams: values, the command codes the translator
\* reads, and the four markers
StreamBytes == {0, 1, 2, 7, 183, 252, 253, 254, 255}

RECURSIVE Streams(_)
Streams(n) == IF n = 0 THEN {<<>>}
              ELSE LET shorter == Streams(n - 1)
                   IN  shorter \cup {Append(f, b) : f \in shorter,
                                                    b \in StreamBytes}

\* a speed field with each value a byte can have
SpeedStreams == {<<2, b>> : b \in 0..255}

ParseInputs == {[kind |-> "response",
                 hexlist |-> TokensOf(WithChecksum(RespHeader("ok") \o f, TRUE))] :
                   f \in Streams(MaxStream) \cup SpeedStreams}

ParseInit ==
    /\ client = TheClient
    /\ ClientInit
    /\ ConcIdle
    /\ input \in ParseInputs
    /\ stage = "input"
    /\ output = <<>>

\* _parse_response applied to the token list
Parse ==
    /\ input.kind = "response"
    /\ stage = "input"
    /\ output' = [parsed |-> _parse_response(input.hexlist)]
    /\ stage' = "parsed"
    /\ UNCHANGED <<input, clientVars, concVars>>

\* _translate_response applied to the mapping the parser returned
Translate ==
    /\ stage = "parsed"
    /\ output.parsed.error = ""
    /\ output' = [parsed |-> output.parsed,
                  translated |-> _translate_response(output.parsed.data)]
    /\ stage' = "translated"
    /\ UNCHANGED <<input, clientVars, concVars>>

ParseNext == Parse \/ Translate

SpecParse == ParseInit /\ [][ParseNext]_vars

(***************************************************************************)
(* Properties of the client (specification Spec).                          *)
(***************************************************************************)
Mutating == {"power_on", "power_off", "speed", "direction", "sleep", "party"}

\* the payload each mutating command writes
WritePayload(c) ==
    CASE c.name = "power_on" -> power_on_cmd
      [] c.name = "power_off" -> power_off_cmd
      [] c.name = "speed" -> speed_cmd(c.arg)
      [] c.name = "direction" -> direction_cmd(DirectionKey(c.arg))
      [] c.name = "sleep" -> sleep_cmd
      [] c.name = "party" -> party_cmd

Returned == pc = "idle" /\ result.kind = "return"

\* C1: a mutating command that returns normally has performed exactly two
\* exchanges, the write exchange (function 03 with the command's payload)
\* and then a status read (function 01 with the status payload), and its
\* value is the translation of the response to the second exchange.
C1_WriteThenStatus ==
    (Returned /\ call.name \in Mutating) =>
        /\ Len(exchanges) = 2
        /\ exchanges[1].func = <<0, 3>>
        /\ exchanges[1].data = WritePayload(call)
        /\ exchanges[1].sent =
              FromHex(_build_packet(client.idnum, client.password, <<0, 3>>,
                                    WritePayload(call)))
        /\ exchanges[2].func = <<0, 1>>
        /\ exchanges[2].data = status_cmd
        /\ exchanges[2].sent =
              FromHex(_build_packet(client.idnum, client.password, <<0, 1>>,
                                    status_cmd))
        /\ LET t == _translate_response(
                       _parse_response(TokensOf(exchanges[2].received)).data)
           IN  t.error = "" /\ result.value = t.status

\* power_on has returned a status that says the fan is off: the value of
\* the status response, which differs from the response to the write
C1_Witness ==
    /\ Returned
    /\ call.name = "power_on"
    /\ Len(exchanges) = 2
    /\ exchanges[1].received # exchanges[2].received
    /\ result.value.is_on = FALSE

\* C2: speed() with an argument outside the valid speeds, and direction()
\* with an argument that is neither a raw direction code nor a direction
\* name, end with a ValueError with no socket created and nothing sent.
C2_ValidationBeforeIO ==
    /\ (call.name = "speed"
           /\ call.arg \notin {FAN_SPEEDS[k] : k \in 1..Len(FAN_SPEEDS)}) =>
          /\ pc = "idle"
          /\ result.kind = "raise"
          /\ result.value = "ValueError: Invalid fan speed"
          /\ exchanges = <<>>
          /\ sockets = <<>>
    /\ (call.name = "direction"
           /\ call.arg \notin DictKeys(DIRECTIONS) \cup DictValues(DIRECTIONS)) =>
          /\ pc = "idle"
          /\ result.kind = "raise"
          /\ result.value = "ValueError: Invalid fan direction"
          /\ exchanges = <<>>
          /\ sockets = <<>>

\* speed("04") has been called and has raised
C2_Witness ==
    /\ call.name = "speed"
    /\ call.arg = <<0, 4>>
    /\ result.kind = "raise"

\* the header of a datagram (bytes) is well-formed: prefix FD FD, protocol
\* type 02 and, after the id block and the password block, function 06
WellFormedHeader(d) ==
    /\ Len(d) >= 4
    /\ d[1] = 253 /\ d[2] = 253
    /\ d[3] = 2
    /\ LET pwAt == 4 + d[4] + 1
       IN  /\ pwAt <= Len(d)
           /\ LET funcAt == pwAt + d[pwAt] + 1
              IN  funcAt <= Len(d) /\ d[funcAt] = 6

\* C3: no public command returns normally after one of its exchanges, the
\* write exchange of a mutating command included, received a response with
\* a wrong prefix, protocol type or result-function byte.
C3_StructuralStrictness ==
    Returned =>
        \A k \in 1..Len(exchanges) : WellFormedHeader(exchanges[k].received)

\* the last two bytes of the datagram are the checksum of the bytes before
ChecksumMatches(d) ==
    /\ Len(d) >= 2
    /\ SubSeq(d, Len(d) - 1, Len(d))
          = FromHex(_checksum(HexOf(SubSeq(d, 1, Len(d) - 2))))

\* C4: a received datagram whose last two bytes are not, byte for byte,
\* the checksum of the bytes before them ends the call with an error: the
\* exchange is the call's last, nothing is returned.
C4_ChecksumGate ==
    \A k \in 1..Len(exchanges) :
        (exchanges[k].received # None
            /\ ~ChecksumMatches(exchanges[k].received)) =>
           /\ k = Len(exchanges)
           /\ pc = "idle"
           /\ result.kind = "raise"
           /\ result.value \in {"Checksum error", "IndexError"}

\* the status exchange of a mutating command received a datagram whose
\* second checksum byte is wrong, and the command raised
C4_Witness ==
    /\ Len(exchanges) = 2
    /\ Len(exchanges[2].received) >= 2
    /\ ~ChecksumMatches(exchanges[2].received)
    /\ result.kind = "raise"
    /\ result.value = "Checksum error"

\* C8: with a device id or a password of more than 255 UTF-8 bytes no
\* packet is sent.
C8_OversizedRejected ==
    (Len(Utf8(client.idnum)) > 255 \/ Len(Utf8(client.password)) > 255) =>
        exchanges = <<>>

(***************************************************************************)
(* Properties of the codec and the checksum (specification SpecCodec).     *)
(***************************************************************************)
\* the id and the password each serialize to at most 255 bytes
WithinLimits(i) == Len(Utf8(i.idnum)) <= 255 /\ Len(Utf8(i.password)) <= 255

\* the documented wire layout of a request, as a hex string
ExpectedLayout(i) ==
    LET idBytes == Utf8(i.idnum)
        pwBytes == Utf8(i.password)
        body == HexOf(<<253, 253, 2, Len(idBytes)>> \o idBytes
                        \o <<Len(pwBytes)>> \o pwBytes) \o i.func \o i.data
    IN  body \o _checksum(body)

\* C5: for an id and a password within the limits the built packet is
\* prefix FD FD, type 02, the id's byte count at offset 3, the id bytes, the
\* password's byte count, the password bytes, the function byte, the
\* payload and the checksum.
C5_WireLayout ==
    (stage = "built" /\ WithinLimits(input)) =>
        output.packet_str = ExpectedLayout(input)

\* the sum of the bytes lo..hi
RECURSIVE ByteSum(_, _, _)
ByteSum(bs, lo, hi) ==
    IF lo > hi THEN 0
    ELSE IF lo = hi THEN bs[lo]
    ELSE LET mid == (lo + hi) \div 2
         IN  ByteSum(bs, lo, mid) + ByteSum(bs, mid + 1, hi)

\* C6: the checksum is the sum of the bytes after the two-byte prefix,
\* truncated to 16 bits, low byte first and high byte second, also when
\* the sum is 65536 or more.
C6_ChecksumAlgorithm ==
    stage = "summed" =>
        LET sum == ByteSum(input.bytes, 3, Len(input.bytes)) % 65536
        IN  output.checksum = HexOf(<<sum % 256, sum \div 256>>)

\* C7: the packet built for credentials within the limits, cut into byte
\* tokens, passes the header checks of the response parser and the
\* checksum verification.
C7_RoundTrip ==
    (stage = "decoded" /\ WithinLimits(input)) =>
        output.verified = "True" /\ output.header.error = ""

(***************************************************************************)
(* Properties of the parser and the translator (specification SpecParse).  *)
(***************************************************************************)
\* C9: the translation of every mapping the parser produces returns a
\* status record; it never raises.
C9_TranslatorTotal ==
    stage = "translated" => output.translated.error = ""

DefaultStatus == [is_on |-> FALSE, speed |-> <<0, 0>>, oscillating |-> TRUE,
                  direction |-> None, mode |-> "auto"]

\* the mapping without the command c
Without(data, c) == [x \in (DOMAIN data) \ {c} |-> data[x]]

\* C10: a mapping without the on/off, speed, direction and mode fields
\* translates to is_on false, speed "00", direction null, oscillating
\* true, mode auto; a direction or mode value that is not in its table
\* yields what the absence of the field yields: direction null with
\* oscillating true, mode auto.
C10_DefaultDegradation ==
    stage = "translated" =>
        LET data == output.parsed.data
            t == output.translated
            lacks(c) == c \notin DOMAIN data
            unknownDirection == ~lacks(COMMAND_DIRECTION)
                /\ data[COMMAND_DIRECTION] \notin DictKeys(DIRECTIONS)
            unknownMode == ~lacks(COMMAND_MODE)
                /\ data[COMMAND_MODE] \notin {<<0, 1>>, <<0, 2>>}
        IN  /\ (lacks(COMMAND_ON_OFF) /\ lacks(COMMAND_SPEED)
                  /\ lacks(COMMAND_DIRECTION) /\ lacks(COMMAND_MODE)) =>
                  (t.error = "" /\ t.status = DefaultStatus)
            /\ t.error = "" =>
                  /\ lacks(COMMAND_ON_OFF) => t.status.is_on = FALSE
                  /\ lacks(COMMAND_SPEED) => t.status.speed = <<0, 0>>
                  /\ (lacks(COMMAND_DIRECTION) \/ unknownDirection) =>
                        (t.status.direction = None /\ t.status.oscillating)
                  /\ (lacks(COMMAND_MODE) \/ unknownMode) =>
                        t.status.mode = "auto"
            /\ unknownDirection =>
                  t = _translate_response(Without(data, COMMAND_DIRECTION))
            /\ unknownMode =>
                  t = _translate_response(Without(data, COMMAND_MODE))

\* a mapping whose direction value and mode value are both outside their
\* tables has been translated to a status record
C10_Witness ==
    /\ stage = "translated"
    /\ COMMAND_DIRECTION \in DOMAIN output.parsed.data
    /\ output.parsed.data[COMMAND_DIRECTION] \notin DictKeys(DIRECTIONS)
    /\ COMMAND_MODE \in DOMAIN output.parsed.data
    /\ output.parsed.data[COMMAND_MODE] \notin {<<0, 1>>, <<0, 2>>}
    /\ output.translated.error = ""
    /\ output.translated.status.direction = None

(***************************************************************************)
(* Exchanges and sockets of a call (specification Spec).                   *)
(***************************************************************************)
ReadOnly == {"status", "humidity"}

\* the exchange received a datagram that passed the checksum check
ExchangeSucceeded(x) == x.received # None /\ ChecksumMatches(x.received)

\* C11: no retries and bounded exchanges.  A status() or humidity() call
\* sends at most one datagram and a mutating command at most two, the
\* write and then the status read; an exchange is followed by another one
\* only if it succeeded, so a failed exchange (nothing received, a socket
\* fault, a checksum mismatch) is the call's last, the call has ended with
\* an error, and a mutating command whose write exchange failed has made
\* no status exchange; while a datagram is awaited none has been received
\* by that exchange.
C11_NoRetries ==
    /\ call.name \in ReadOnly => Len(exchanges) <= 1
    /\ call.name \in Mutating => Len(exchanges) <= 2
    /\ Len(exchanges) = 2 =>
          /\ exchanges[1].func = FUNC_READ_WRITE
          /\ exchanges[2].func = FUNC_READ
    /\ \A k \in 1..Len(exchanges) :
          /\ k < Len(exchanges) => ExchangeSucceeded(exchanges[k])
          /\ exchanges[k].received = None =>
                /\ k = Len(exchanges)
                /\ \/ pc = "recv"
                   \/ /\ pc = "idle"
                      /\ result.kind = "raise"
                      /\ result.value \in {"TimeoutError", "OSError"}
          /\ (pc # "recv" /\ ~ExchangeSucceeded(exchanges[k])) =>
                /\ k = Len(exchanges)
                /\ pc = "idle"
                /\ result.kind = "raise"
    /\ pc = "recv" =>
          /\ Len(exchanges) >= 1
          /\ exchanges[Len(exchanges)].received = None

\* the write exchange of power_on timed out: the command raised after one
\* datagram, with no status exchange
C11_Witness ==
    /\ call.name = "power_on"
    /\ pc = "idle"
    /\ Len(exchanges) = 1
    /\ exchanges[1].func = FUNC_READ_WRITE
    /\ exchanges[1].received = None
    /\ result.kind = "raise"
    /\ result.value = "TimeoutError"

\* C12: socket scoping.  Every exchange created a socket of its own (no two
\* exchanges of a call share one, and a call creates no socket beyond one
\* per _send_command that reached line 183); the only socket that can be
\* open is the one of the exchange whose datagram is awaited; once the call
\* has finished, normally or with any error, every socket it opened is
\* closed.
C12_SocketScoping ==
    /\ \A j, k \in 1..Len(exchanges) :
          /\ exchanges[k].socket \in 1..Len(sockets)
          /\ j # k => exchanges[j].socket # exchanges[k].socket
    /\ Len(sockets) \in {Len(exchanges), Len(exchanges) + 1}
    /\ Len(sockets) = Len(exchanges) + 1 =>
          /\ pc = "idle"
          /\ result.kind = "raise"
          /\ result.value = "OSError"
    /\ \A n \in 1..Len(sockets) :
          (sockets[n] = "open") =
             (pc = "recv" /\ n = exchanges[Len(exchanges)].socket)
    /\ pc = "idle" => \A n \in 1..Len(sockets) : sockets[n] = "closed"

\* a mutating command ended on a checksum mismatch in its status exchange:
\* it created two sockets, one per exchange, and both are closed
C12_Witness ==
    /\ pc = "idle"
    /\ call.name \in Mutating
    /\ Len(sockets) = 2
    /\ Len(exchanges) = 2
    /\ exchanges[1].socket # exchanges[2].socket
    /\ result.kind = "raise"
    /\ result.value = "Checksum error"
    /\ \A n \in 1..Len(sockets) : sockets[n] = "closed"

\* the record status() makes of a response datagram (lines 75-76)
StatusRecord(datagram) ==
    _translate_response(_parse_response(TokensOf(datagram)).data).status

\* the status record a call returned is the record of the datagram its
\* status exchange received, and of nothing else
StatusFromResponse ==
    (Returned /\ call.name \in Mutating \cup {"status"}) =>
        result.value = StatusRecord(exchanges[Len(exchanges)].received)

\* C14: no client-side state.  No step of any command, successful or
\* failed, changes the client's host, port, device id or password, and the
\* client has no other field; the record a status() returns (called
\* directly or by a mutating command) is a function of the status response
\* datagram alone, so equal responses give equal records whatever ran
\* before.
C14_NoClientState ==
    /\ [][client' = client]_vars
    /\ [](DOMAIN client = {"host", "port", "idnum", "password"})
    /\ []StatusFromResponse

\* status() has returned the record of its response, here one that says
\* the fan is on, on a client whose fields are those it was built with
C14_Witness ==
    /\ Returned
    /\ call.name = "status"
    /\ Len(exchanges) = 1
    /\ result.value = StatusRecord(exchanges[1].received)
    /\ result.value.is_on
    /\ client \in Clients

\* the table's raw code of a direction given in either form
DirectionCode(d) ==
    IF d \in DictKeys(DIRECTIONS) THEN d
    ELSE DIRECTIONS[CHOOSE k \in 1..Len(DIRECTIONS) : DIRECTIONS[k][2] = d][1]

\* C15: direction(d) with d a raw direction code or a direction name of
\* the table is not rejected, and its write request is function 03 with
\* the payload B7 followed by the raw code (d itself, or the code the table
\* maps to the name d), so the datagram it sends is the packet built from
\* that payload: a name and its code send the same packet.
C15_DirectionForms ==
    (call.name = "direction"
        /\ call.arg \in DictKeys(DIRECTIONS) \cup DictValues(DIRECTIONS)) =>
        LET payload == COMMAND_DIRECTION \o DirectionCode(call.arg)
        IN  /\ ~(result.kind = "raise" /\ Len(sockets) = 0
                    /\ result.value = "ValueError: Invalid fan direction")
            /\ (frame = "write" /\ pc # "idle") =>
                  request = [func |-> FUNC_READ_WRITE, data |-> payload]
            /\ Len(exchanges) >= 1 =>
                  /\ exchanges[1].data = payload
                  /\ exchanges[1].sent =
                        FromHex(_build_packet(client.idnum, client.password,
                                              FUNC_READ_WRITE, payload))

\* direction("reverse") has sent the write packet whose payload is B7 01
C15_Witness ==
    /\ call.name = "direction"
    /\ call.arg = DIRECTION_REVERSE
    /\ Len(exchanges) >= 1
    /\ exchanges[1].data = <<11, 7, 0, 1>>

(***************************************************************************)
(* The field loop of _parse_response, one iteration per step               *)
(* (specification SpecFields).  input.hexlist is the token list, output    *)
(* the loop's locals: the cursor i, the mapping data, the error raised     *)
(* ("" while none), and for the properties below the cursor the last       *)
(* iteration started from (-1 before the first), the mapping it started    *)
(* with, the number of iterations run, and for each command of the mapping *)
(* the positions of the token list its command code and value were taken   *)
(* from.                                                                   *)
(***************************************************************************)
FieldBytes == {0, 1, 2, 252, 253, 254, 255}

RECURSIVE FieldStreams(_)
FieldStreams(n) == IF n = 0 THEN {<<>>}
                   ELSE LET shorter == FieldStreams(n - 1)
                        IN  shorter \cup {Append(f, b) : f \in shorter,
                                                         b \in FieldBytes}

\* further field streams: a two-byte field, a status response, an
\* explicit-size field of size 0 followed by a plain field, an
\* explicit-size field cut after the first of its 4 value tokens
LongStreams == {<<254, 2, 37, 16, 32>>,
                <<1, 1, 2, 3, 183, 1>>,
                <<254, 0, 1, 2, 3>>,
                <<254, 4, 37, 16>>}

\* responses cut inside the header: the id length (16) reaches past the
\* end; the password length (5) reaches past the end; the response ends
\* after the password length byte and its first checksum byte is 06
CutHeaders == {<<253, 253, 2, 16, 65>>,
               <<253, 253, 2, 1, 65, 5, 6>>,
               <<253, 253, 2, 1, 3, 0>>}

FieldInputs ==
    {[kind |-> "fields",
      hexlist |-> TokensOf(WithChecksum(RespHeader("ok") \o f, TRUE))] :
        f \in FieldStreams(MaxStream) \cup LongStreams}
    \cup {[kind |-> "fields", hexlist |-> TokensOf(WithChecksum(b, TRUE))] :
            b \in CutHeaders}

\* the positions of hexlist the iteration that starts at cursor i takes
\* the command code and the value tokens from (lines 292-315)
FieldPositions(hexlist, i) ==
    LET parameter == At(hexlist, i)
    IN  IF parameter = RETURN_INVALID THEN {i + 1}
        ELSE IF parameter = RETURN_VALUE_SIZE
        THEN LET value_size == IntOfHex(At(hexlist, i + 1))
             IN  {i + 2} \cup
                 {p \in (i + 3)..(i + 2 + value_size) : p < Len(hexlist)}
        ELSE {i, i + 1}

\* the command the iteration that starts at cursor i records
FieldCommand(hexlist, i) ==
    LET parameter == At(hexlist, i)
    IN  IF parameter = RETURN_INVALID THEN At(hexlist, i + 1)
        ELSE IF parameter = RETURN_VALUE_SIZE THEN At(hexlist, i + 2)
        ELSE parameter

FieldsInit ==
    /\ client = TheClient
    /\ ClientInit
    /\ ConcIdle
    /\ input \in FieldInputs
    /\ stage = "input"
    /\ output = <<>>

\* lines 245-280: the header checks, then i = start
ReadHeader ==
    /\ input.kind = "fields"
    /\ stage = "input"
    /\ LET hd == ParseHeader(input.hexlist)
       IN  /\ output' = [error |-> hd.error, i |-> hd.start, data |-> <<>>,
                         from |-> -1, before |-> <<>>, origin |-> <<>>,
                         steps |-> 0]
           /\ stage' = IF hd.error # "" THEN "raised" ELSE "loop"
    /\ UNCHANGED <<input, clientVars, concVars>>

\* one iteration of the while loop of line 281
FieldIteration ==
    /\ stage = "loop"
    /\ output.i < Len(input.hexlist) - 2
    /\ LET r == FieldStep(input.hexlist, output.i, output.data)
       IN  /\ output' = [error |-> r.error, i |-> r.i, data |-> r.data,
                         from |-> output.i, before |-> output.data,
                         steps |-> output.steps + 1,
                         origin |-> IF r.error # "" THEN output.origin
                                    ELSE Update(output.origin,
                                                FieldCommand(input.hexlist, output.i),
                                                FieldPositions(input.hexlist, output.i))]
           /\ stage' = IF r.error # "" THEN "raised" ELSE "loop"
    /\ UNCHANGED <<input, clientVars, concVars>>

\* the loop condition fails: return data (line 328)
ReturnData ==
    /\ stage = "loop"
    /\ ~(output.i < Len(input.hexlist) - 2)
    /\ stage' = "returned"
    /\ UNCHANGED <<input, output, clientVars, concVars>>

FieldsNext == ReadHeader \/ FieldIteration \/ ReturnData

SpecFields == FieldsInit /\ [][FieldsNext]_vars

\* the loop's result is the result of _parse_response
FieldsAgree ==
    stage \in {"returned", "raised"} =>
        LET parsed == _parse_response(input.hexlist)
        IN  /\ parsed.error = output.error
            /\ (stage = "returned") = (parsed.error = "")
            /\ stage = "returned" => parsed.data = output.data

(***************************************************************************)
(* Properties of the field loop (specifications SpecFields and             *)
(* SpecFieldsFair).                                                        *)
(***************************************************************************)
\* an iteration has run
Stepped == stage \in {"loop", "returned", "raised"} /\ output.from >= 0

\* an iteration has run and recorded a field
Recorded == Stepped /\ output.error = ""

Markers == {RETURN_CHANGE_FUNC, RETURN_INVALID, RETURN_VALUE_SIZE,
            RETURN_HIGH_BYTE}

\* the tokens of positions a..b-1, last first, as one hex string
ReversedTokens(hexlist, a, b) ==
    Join([k \in 1..(b - a) |-> At(hexlist, b - k)])

\* C16: field-marker dispatch.  For the iteration that started at cursor
\* from: on a plain command code it recorded command -> the one following
\* token and advanced 2; on FD it recorded the following command code with
\* the empty value and advanced 2; on FE with size N it advanced 3 + N and,
\* the N tokens after the command code being there, recorded command -> those
\* N tokens in reversed order; on FC and on FF the parse failed with the
\* marker's error and no mapping.
C16_MarkerDispatch ==
    Stepped =>
        LET hexlist == input.hexlist
            from == output.from
            parameter == At(hexlist, from)
            N == IntOfHex(At(hexlist, from + 1))
        IN  /\ parameter \notin Markers =>
                  /\ Recorded
                  /\ output.i = from + 2
                  /\ output.data = Update(output.before, parameter,
                                          At(hexlist, from + 1))
            /\ parameter = RETURN_INVALID =>
                  /\ Recorded
                  /\ output.i = from + 2
                  /\ output.data = Update(output.before,
                                          At(hexlist, from + 1), <<>>)
            /\ parameter = RETURN_VALUE_SIZE =>
                  /\ Recorded
                  /\ output.i = from + 3 + N
                  /\ from + 3 + N <= Len(hexlist) =>
                        output.data = Update(output.before,
                                             At(hexlist, from + 2),
                                             ReversedTokens(hexlist, from + 3,
                                                            from + 3 + N))
            /\ parameter = RETURN_CHANGE_FUNC =>
                  /\ stage = "raised"
                  /\ output.error =
                        "special function, change base function not implemented"
                  /\ _parse_response(hexlist) = Raise(output.error)
            /\ parameter = RETURN_HIGH_BYTE =>
                  /\ stage = "raised"
                  /\ output.error = "special function, high byte not implemented"
                  /\ _parse_response(hexlist) = Raise(output.error)

\* the explicit-size field FE 02 25 10 20 was recorded as 25 -> 2010 and
\* the cursor advanced 5 tokens
C16_Witness ==
    /\ Recorded
    /\ At(input.hexlist, output.from) = RETURN_VALUE_SIZE
    /\ output.i = output.from + 5
    /\ <<2, 5>> \in DOMAIN output.data
    /\ output.data[<<2, 5>>] = <<2, 0, 1, 0>>

\* the end of the field at cursor i as its tokens declare it: 2 tokens for
\* a plain field and for an invalid-command marker, 3 + N for an
\* explicit-size marker with size N
FieldEnd(hexlist, i) ==
    IF At(hexlist, i) = RETURN_VALUE_SIZE
    THEN i + 3 + IntOfHex(At(hexlist, i + 1))
    ELSE i + 2

\* the header's id and password lengths and the result-function byte lie
\* before the trailing checksum
HeaderWithin(hexlist) ==
    LET n == Len(hexlist) - 2
    IN  /\ 3 < n
        /\ LET afterId == 3 + 1 + IntOfHex(At(hexlist, 3))
           IN  /\ afterId < n
               /\ afterId + 1 + IntOfHex(At(hexlist, afterId)) < n

\* C17: truncated field streams are errors.  A response whose header
\* lengths point past the tokens before the checksum is not parsed into a
\* mapping; no field is recorded whose declared extent reaches past the
\* tokens before the checksum; an explicit-size field is never recorded
\* with a value of fewer than N tokens.
C17_TruncationIsError ==
    /\ stage \in {"loop", "returned"} => HeaderWithin(input.hexlist)
    /\ Recorded =>
          /\ FieldEnd(input.hexlist, output.from) <= Len(input.hexlist) - 2
          /\ At(input.hexlist, output.from) = RETURN_VALUE_SIZE =>
                Len(output.data[At(input.hexlist, output.from + 2)])
                   = 2 * IntOfHex(At(input.hexlist, output.from + 1))

\* C18: the trailing checksum is never parsed as field data.  When the
\* parser returns a mapping, the command code and the value tokens of each
\* of its entries come from positions before the last two tokens.
C18_ChecksumNotParsed ==
    stage = "returned" =>
        \A c \in DOMAIN output.data :
            \A p \in output.origin[c] : p < Len(input.hexlist) - 2

\* C20: the response parser terminates.  Every iteration that does not
\* raise moves the cursor forward by at least 2 (3 for an explicit-size
\* field of size 0), so the k-th iteration starts at least 2(k-1) tokens
\* after the first field and before the checksum: the number of iterations
\* is bounded by the length of the token list, and the loop ends with a
\* mapping or an error.
C20_ParserTerminates ==
    /\ [][(stage = "loop" /\ stage' = "loop") =>
            output'.i >= output.i + 2]_vars
    /\ [](Recorded => output.i >= output.from + 2)
    /\ [](Stepped =>
            2 * (output.steps - 1)
               < Len(input.hexlist) - 2 - ParseHeader(input.hexlist).start)

\* an explicit-size field of size 0 was recorded and moved the cursor by 3,
\* and the parse returned
C20_Witness ==
    /\ stage = "returned"
    /\ Recorded
    /\ At(input.hexlist, output.from) = RETURN_VALUE_SIZE
    /\ IntOfHex(At(input.hexlist, output.from + 1)) = 0
    /\ output.i = output.from + 3

(***************************************************************************)
(* The translated speed (specification SpecParse).                         *)
(***************************************************************************)
\* the number a string of decimal digits writes
DecimalValue(digits) ==
    LET RECURSIVE value(_)
        value(k) == IF k = 0 THEN 0 ELSE 10 * value(k - 1) + digits[k]
    IN  value(Len(digits))

IsDecimal(digits) == \A k \in 1..Len(digits) : digits[k] \in 0..9

\* the mapping has a speed field whose value is one byte
OneByteSpeed(data) ==
    COMMAND_SPEED \in DOMAIN data /\ Len(data[COMMAND_SPEED]) = 2

SpeedByte(data) == 16 * data[COMMAND_SPEED][1] + data[COMMAND_SPEED][2]

\* C19 as stated: the speed of every status record is a string of exactly
\* two decimal digits, which for a one-byte speed value writes that byte in
\* decimal, and is "00" when the speed field is absent.
C19_TwoDigitSpeed ==
    (stage = "translated" /\ output.translated.error = "") =>
        LET data == output.parsed.data
            shown == output.translated.status.speed
        IN  /\ COMMAND_SPEED \notin DOMAIN data => shown = <<0, 0>>
            /\ OneByteSpeed(data) =>
                  /\ IsDecimal(shown)
                  /\ Len(shown) = 2
                  /\ DecimalValue(shown) = SpeedByte(data)

\* C19, amended: for a one-byte speed value the speed of the status record
\* is the decimal rendering of the byte padded with zeros to at least two
\* digits, so two digits for the bytes 00..63 and three digits for the
\* bytes 64..FF; it is "00" when the speed field is absent.
C19_SpeedAtLeastTwoDigits ==
    (stage = "translated" /\ output.translated.error = "") =>
        LET data == output.parsed.data
            shown == output.translated.status.speed
        IN  /\ COMMAND_SPEED \notin DOMAIN data => shown = <<0, 0>>
            /\ OneByteSpeed(data) =>
                  /\ IsDecimal(shown)
                  /\ Len(shown) = IF SpeedByte(data) < 100 THEN 2 ELSE 3
                  /\ DecimalValue(shown) = SpeedByte(data)

\* the speed byte FF has been translated to the three digits 255
C19_Witness ==
    /\ stage = "translated"
    /\ output.translated.error = ""
    /\ OneByteSpeed(output.parsed.data)
    /\ output.parsed.data[COMMAND_SPEED] = <<15, 15>>
    /\ output.translated.status.speed = <<2, 5, 5>>

(***************************************************************************)
(* Two mutating calls in flight at once on one client, against one device  *)
(* (specification SpecConcurrent).                                         *)
(*                                                                         *)
(* tasks[1] is a power_on() call, tasks[2] a power_off() call and tasks[3] *)
(* a status() call issued once both have completed.  Each has the state a  *)
(* call has in Spec: its frame, the arguments of its _send_command, its    *)
(* position (pc "send", "recv" or "done"), its exchanges and its result.   *)
(* sockets lists the sockets created by all of them.                       *)
(*                                                                         *)
(* driver is what runs the calls.  The public commands are coroutines, but *)
(* _send_command uses a blocking socket (settimeout, sendto, recvfrom,     *)
(* lines 183-196) and no await in the file ever suspends, so on one event  *)
(* loop ("loop") a call that has started runs to its end before any other  *)
(* coroutine of the loop takes a step.  Calls overlap only when they are   *)
(* driven from different threads, each with an event loop of its own       *)
(* ("threads"); their steps then interleave freely.                        *)
(*                                                                         *)
(* The device is the environment: it holds the power state, handles the    *)
(* datagrams under way in any order (UDP does not order them), applies a   *)
(* write when it handles it and answers every datagram with its state.     *)
(* device.log is the sequence of requests it handled, as <<call, func>>.   *)
(***************************************************************************)
Calls == 1..3
Drivers == {"loop", "threads"}

CallName(c) == CASE c = 1 -> "power_on" [] c = 2 -> "power_off"
                 [] c = 3 -> "status"

\* the call as it enters its first _send_command
NewTask(c) ==
    [name |-> CallName(c),
     frame |-> IF c = 3 THEN "status" ELSE "write",
     request |-> CASE c = 1 -> [func |-> FUNC_READ_WRITE, data |-> power_on_cmd]
                   [] c = 2 -> [func |-> FUNC_READ_WRITE, data |-> power_off_cmd]
                   [] c = 3 -> [func |-> FUNC_READ, data |-> status_cmd],
     pc |-> "send",
     exchanges |-> <<>>,
     result |-> NoResult]

ConcurrentInit ==
    /\ client = TheClient
    /\ ClientInit
    /\ PureIdle
    /\ tasks = [c \in Calls |-> NewTask(c)]
    /\ device \in {[is_on |-> b, log |-> <<>>] : b \in BOOLEAN}
    /\ network = {}
    /\ driver \in Drivers

InFlight(c) == tasks[c].pc = "recv" \/ Len(tasks[c].exchanges) > 0

\* the call may take a step: always when the calls run in threads; on one
\* event loop only if no other call has started and not yet finished
CanRun(c) ==
    \/ driver = "threads"
    \/ \A d \in Calls \ {c} : tasks[d].pc = "done" \/ ~InFlight(d)

\* status() is issued after both mutating calls have completed
Issued(c) == c = 3 => (tasks[1].pc = "done" /\ tasks[2].pc = "done")

\* _send_command up to sendto, for the call c: its own packet, a socket of
\* its own
CallSend(c) ==
    /\ tasks[c].pc = "send"
    /\ Issued(c)
    /\ CanRun(c)
    /\ LET t == tasks[c]
           packet == FromHex(_build_packet(client.idnum, client.password,
                                           t.request.func, t.request.data))
           sock == Len(sockets) + 1
       IN  /\ sockets' = Append(sockets, "open")
           /\ tasks' = [tasks EXCEPT ![c].pc = "recv",
                           ![c].exchanges = Append(t.exchanges,
                               [func |-> t.request.func, data |-> t.request.data,
                                socket |-> sock, sent |-> packet,
                                received |-> None])]
           /\ network' = network \cup
                 {[to |-> "device", call |-> c, socket |-> sock,
                   func |-> t.request.func, data |-> t.request.data,
                   datagram |-> packet]}
    /\ UNCHANGED <<client, pc, call, frame, request, exchanges, result,
                   device, driver, pureVars>>

\* the response the device sends: a well-formed result packet with its
\* power state and speed 1
DeviceResponse(is_on) ==
    WithChecksum(RespHeader("ok") \o <<1, IF is_on THEN 1 ELSE 0, 2, 1>>, TRUE)

\* the device handles one of the datagrams sent to it
DeviceHandle(m) ==
    /\ m \in network
    /\ m.to = "device"
    /\ LET written == m.func = FUNC_READ_WRITE
                         /\ Slice(m.data, 0, 2) = COMMAND_ON_OFF
           is_on == IF written THEN Slice(m.data, 2, 4) = POWER_ON
                    ELSE device.is_on
       IN  /\ device' = [is_on |-> is_on,
                         log |-> Append(device.log, <<m.call, m.func>>)]
           /\ network' = (network \ {m}) \cup
                 {[to |-> "client", call |-> m.call, socket |-> m.socket,
                   func |-> FUNC_RESULT, data |-> <<>>,
                   datagram |-> DeviceResponse(is_on)]}
    /\ UNCHANGED <<clientVars, tasks, driver, pureVars>>

\* recvfrom returns on the socket of the call's exchange, the checksum is
\* verified, the socket is closed and the caller goes on (lines 196-210
\* and the continuation of the public command)
CallRecv(c, m) ==
    /\ tasks[c].pc = "recv"
    /\ CanRun(c)
    /\ m \in network
    /\ m.to = "client"
    /\ m.socket = tasks[c].exchanges[Len(tasks[c].exchanges)].socket
    /\ LET t == tasks[c]
           result_data == RecvFrom(m.datagram)
           result_hexlist == TokensOf(result_data)
           verified == _verify_checksum(result_hexlist)
           k == Continue(t.frame, result_hexlist)
           received == [t.exchanges EXCEPT
                           ![Len(t.exchanges)].received = result_data]
           Ended(kind, value) ==
               [t EXCEPT !.exchanges = received, !.pc = "done",
                         !.result = [kind |-> kind, value |-> value]]
       IN  /\ network' = network \ {m}
           /\ sockets' = [sockets EXCEPT ![m.socket] = "closed"]
           /\ tasks' = [tasks EXCEPT ![c] =
                 IF verified = "IndexError" THEN Ended("raise", "IndexError")
                 ELSE IF verified = "False"
                 THEN Ended("raise", "Checksum error")
                 ELSE IF k.next = "status"
                 THEN [t EXCEPT !.exchanges = received, !.pc = "send",
                          !.frame = "status",
                          !.request = [func |-> FUNC_READ,
                                       data |-> status_cmd]]
                 ELSE Ended(k.next, k.value)]
    /\ UNCHANGED <<client, pc, call, frame, request, exchanges, result,
                   device, driver, pureVars>>

ConcurrentNext ==
    \/ \E c \in Calls : CallSend(c)
    \/ \E m \in network : DeviceHandle(m)
    \/ \E c \in Calls : \E m \in network : CallRecv(c, m)

SpecConcurrent == ConcurrentInit /\ [][ConcurrentNext]_vars

\* the call whose write the device applied last among the first n requests
\* it handled
LastWriter(n) ==
    LET writes == {j \in 1..n : device.log[j][2] = FUNC_READ_WRITE}
    IN  device.log[CHOOSE j \in writes : \A i \in writes : i <= j][1]

\* the position in the device's log of the status read of call c
StatusHandled(c) ==
    CHOOSE j \in 1..Len(device.log) : device.log[j] = <<c, FUNC_READ>>

CallReturned(c) == tasks[c].pc = "done" /\ tasks[c].result.kind = "return"

\* the calls run by one event loop do not overlap: at most one call has
\* started and not finished
LoopSerializes ==
    driver = "loop" =>
        \A c, d \in Calls :
            (c # d /\ InFlight(c) /\ tasks[c].pc # "done") =>
                (tasks[d].pc = "done" \/ ~InFlight(d))

\* C13: uncoordinated concurrent calls.  With a power_on and a power_off
\* in flight on one client, every exchange sends the packet built from its
\* own call's payload on a socket no other exchange uses; the status a
\* mutating call returns is the power state left by the write the device
\* had applied last when it handled that call's status read, its own or
\* the other call's; a status() issued after both calls have completed
\* reports the value of the write the device applied last.
C13_UncoordinatedCalls ==
    /\ \A c \in Calls : \A k \in 1..Len(tasks[c].exchanges) :
          LET x == tasks[c].exchanges[k]
          IN  /\ x.data = IF x.func = FUNC_READ_WRITE
                          THEN WritePayload([name |-> tasks[c].name,
                                             arg |-> None])
                          ELSE status_cmd
              /\ x.sent = FromHex(_build_packet(client.idnum, client.password,
                                                x.func, x.data))
              /\ \A d \in Calls : \A j \in 1..Len(tasks[d].exchanges) :
                    (d # c \/ j # k) => tasks[d].exchanges[j].socket # x.socket
    /\ \A c \in Calls :
          CallReturned(c) =>
              tasks[c].result.value.is_on =
                  (CallName(LastWriter(StatusHandled(c))) = "power_on")
    /\ CallReturned(3) =>
          /\ tasks[3].result.value.is_on = device.is_on
          /\ tasks[3].result.value.is_on =
                (CallName(LastWriter(Len(device.log))) = "power_on")

\* the device handled write(power_on), write(power_off), then the two
\* status reads: power_on returned "off", the value power_off wrote, and
\* so did the status() issued afterwards
C13_Witness ==
    /\ driver = "threads"
    /\ device.log = << <<1, FUNC_READ_WRITE>>, <<2, FUNC_READ_WRITE>>,
                       <<1, FUNC_READ>>, <<2, FUNC_READ>>, <<3, FUNC_READ>> >>
    /\ CallReturned(1)
    /\ tasks[1].result.value.is_on = FALSE
    /\ CallReturned(3)
    /\ tasks[3].result.value.is_on = FALSE

=============================================================================
